---- MODULE Spec2Model ----
(***************************************************************************)
(* Model of issuebot.py: a Discord bot that files bug reports and          *)
(* suggestions as GitHub issues.                                           *)
(*                                                                         *)
(* Strings are TLA+ strings; the Python string operations the bot uses     *)
(* (lower, capitalize, "in", f-string concatenation, str of an int) are    *)
(* computed character by character.  A Python value that may be None is a  *)
(* sequence of length 0 (None) or 1 (the value).                           *)
(***************************************************************************)
EXTENDS Integers, Sequences, FiniteSets, TLC

(* ------------------------------ bounds --------------------------------- *)
\* user-originated gateway events (messages posted and /report issue uses)
MaxEvents == 1

(* ------------------------- Python helpers ------------------------------ *)
None == <<>>
Some(x) == <<x>>

Uppercase == "ABCDEFGHIJKLMNOPQRSTUVWXYZ"
Lowercase == "abcdefghijklmnopqrstuvwxyz"
Digits == "0123456789"

CharAt(s, i) == SubSeq(s, i, i)

\* the position of the one-character string c in alphabet, 0 when absent
IndexIn(alphabet, c) ==
    IF \E i \in 1..Len(alphabet) : CharAt(alphabet, i) = c
    THEN CHOOSE i \in 1..Len(alphabet) : CharAt(alphabet, i) = c
    ELSE 0

LowerChar(c) ==
    IF IndexIn(Uppercase, c) > 0 THEN CharAt(Lowercase, IndexIn(Uppercase, c)) ELSE c

UpperChar(c) ==
    IF IndexIn(Lowercase, c) > 0 THEN CharAt(Uppercase, IndexIn(Lowercase, c)) ELSE c

\* str.lower()
RECURSIVE lower(_)
lower(s) ==
    IF Len(s) = 0 THEN "" ELSE LowerChar(CharAt(s, 1)) \o lower(SubSeq(s, 2, Len(s)))

\* str.capitalize(): first character upper-cased, the rest lower-cased
capitalize(s) ==
    IF Len(s) = 0 THEN "" ELSE UpperChar(CharAt(s, 1)) \o lower(SubSeq(s, 2, Len(s)))

\* Python's  keyword in content  on strings: substring test
Contains(content, keyword) ==
    \E i \in 1..(Len(content) - Len(keyword) + 1) :
        SubSeq(content, i, i + Len(keyword) - 1) = keyword

\* str(n) of a non-negative int, as an f-string formats it
RECURSIVE str(_)
str(n) ==
    IF n < 10 THEN CharAt(Digits, n + 1)
    ELSE str(n \div 10) \o CharAt(Digits, (n % 10) + 1)

\* Mutant of Truthy: the test written as  issue_url != ""  , which None passes.
NotEmptyString(v) == v # Some("")

\* Python truthiness of a value that is None or a string
Truthy(v) == v # None /\ v[1] # ""

(* --------------------------- the actors -------------------------------- *)
BotUser == [name |-> "IssueBot", id |-> 1]
Users == {[name |-> "ann", id |-> 7], [name |-> "bob", id |-> 12]}

\* discord.User.mention
mention(user) == "<@" \o str(user.id) \o ">"

\* what users type in the channel
UserContents == {"hello", "Found a BUG"}

\* max_length of the two InputText fields of ReportModal
TitleMaxLength == 50
DescriptionMaxLength == 1000

\* what users type into the form
TypedTitles == <<"crash", "Dark mode">>
TypedDescription == "it broke"

VARIABLES
    gateway,     \* events for the bot's own channel messages, not yet dispatched
    dispatched,  \* history: the events on_message has handled, and whether it replied
    views,       \* the MainView objects created, in order
    modals,      \* the ReportModal objects created, in order, with their callback's state
    sent,        \* the messages the bot has sent
    posts,       \* every POST create_github_issue has issued
    github,      \* the issues the hosting service holds
    nEvents      \* user-originated gateway events so far

vars == <<gateway, dispatched, views, modals, sent, posts, github, nEvents>>

Init ==
    /\ gateway = <<>>
    /\ dispatched = {}
    /\ views = <<>>
    /\ modals = <<>>
    /\ sent = {}
    /\ posts = <<>>
    /\ github = <<>>
    /\ nEvents = 0

(* ------------------------ messages and embeds -------------------------- *)
\* discord.Embed(title, description, color) with the fields added to it
Embed(title, description, color, fields) ==
    [title |-> title, description |-> description, color |-> color, fields |-> fields]

EmbedField(name, value) == [name |-> name, value |-> value]

\* a message the bot sends: `modal` is the form it answers (0: none), `to` the
\* interaction's user (None for a plain channel message), `view` the MainView
\* attached (0: none)
Message(kind, modal, to, ephemeral, content, embed, view) ==
    [kind |-> kind, modal |-> modal, to |-> to, ephemeral |-> ephemeral,
     content |-> content, embed |-> embed, view |-> view]

\* the MESSAGE_CREATE event the gateway delivers for a channel message
Event(author, content) == [author |-> author, content |-> content]

\* Messages sent without the ephemeral flag are channel messages: the gateway
\* delivers them back to the bot as events authored by bot.user.
Delivered(message) ==
    IF message.ephemeral THEN <<>> ELSE <<Event(BotUser, message.content)>>

(* ------------------------------ on_message ----------------------------- *)
bug_keywords == <<"bug", "issue", "error", "problem">>
suggestion_keywords == <<"suggestion", "idea", "feature", "improve">>

\* any(keyword in content for keyword in keywords)
AnyKeyword(keywords, content) ==
    \E k \in 1..Len(keywords) : Contains(content, keywords[k])

\* Mutant of IsOwnMessage: the author check left out.
OwnMessageUnchecked(message) == FALSE

\* message.author == bot.user
IsOwnMessage(message) == message.author = BotUser

\* the condition under which on_message replies with a MainView
Triggers(message) ==
    /\ ~IsOwnMessage(message)
    /\ \/ AnyKeyword(bug_keywords, lower(message.content))
       \/ AnyKeyword(suggestion_keywords, lower(message.content))

\* MainView(message_content)
MainView(message_content) == [message_content |-> message_content]

PromptEmbed ==
    Embed("Did you want to report an issue or suggest a feature?",
          "Click a button below to get started.", "default", <<>>)

\* The handler, run on one MESSAGE_CREATE event, `pending` being the events
\* still waiting behind it: it returns at once for the bot's own messages, and
\* replies with a MainView when a keyword occurs.
on_message(message, pending) ==
    LET reply == Message("prompt", 0, None, FALSE, "",
                         Some(PromptEmbed), Len(views) + 1)
    IN  IF Triggers(message)
        THEN /\ views' = Append(views, MainView(Some(message.content)))
             /\ sent' = sent \cup {reply}
             /\ gateway' = pending \o Delivered(reply)
             /\ dispatched' = dispatched \cup {[message |-> message, replied |-> TRUE]}
        ELSE /\ gateway' = pending
             /\ dispatched' = dispatched \cup {[message |-> message, replied |-> FALSE]}
             /\ UNCHANGED <<views, sent>>

\* a user posts a message in a channel the bot reads
UserMessage(user, content) ==
    /\ nEvents < MaxEvents
    /\ nEvents' = nEvents + 1
    /\ on_message(Event(user, content), gateway)
    /\ UNCHANGED <<modals, posts, github>>

\* the gateway delivers the oldest of the bot's own channel messages
OwnMessage ==
    /\ gateway # <<>>
    /\ on_message(Head(gateway), Tail(gateway))
    /\ UNCHANGED <<modals, posts, github, nEvents>>

(* ---------------------------- /report issue ---------------------------- *)
\* the slash command: ctx.respond(embed=..., view=MainView())
issue(user) ==
    /\ nEvents < MaxEvents
    /\ nEvents' = nEvents + 1
    /\ LET response == Message("prompt", 0, None, FALSE, "",
                               Some(Embed("Report an issue or suggest a feature",
                                          "", "default", <<>>)),
                               Len(views) + 1)
       IN  /\ views' = Append(views, MainView(None))
           /\ sent' = sent \cup {response}
           /\ gateway' = gateway \o Delivered(response)
    /\ UNCHANGED <<dispatched, modals, posts, github>>

(* --------------------- MainView buttons, ReportModal ------------------- *)
\* the positions at which a callback has ended: it returned after the success
\* embed or the failure notice, or an exception left it
Ended == {"succeeded", "failed", "raised"}

\* ReportModal(issue_type, message_content) shown to `user`.  The fields from
\* `pc` on are the state of its callback (position, local variables); `log` and
\* `reuses` are history: what the callback has done so far, and whether the
\* view had already led to a finished submission when the form was opened.
ReportModal(view, issue_type, message_content, user) ==
    [view |-> view, issue_type |-> issue_type, prefill |-> message_content,
     user |-> user, pc |-> "form", title |-> None, description |-> None,
     response |-> None, raised |-> None, issue_url |-> None, log |-> <<>>,
     reuses |-> \E s \in DOMAIN modals :
                    modals[s].view = view /\ modals[s].pc \in Ended]

\* interaction.response.send_modal(ReportModal(...)): the view has timeout=None
\* and its buttons stay enabled, so any user may click them at any time.
\* A run follows one form per user.
send_modal(view, issue_type, user) ==
    /\ view \in DOMAIN views
    /\ \A s \in DOMAIN modals : modals[s].user # user
    /\ modals' = Append(modals, ReportModal(view, issue_type,
                                            views[view].message_content, user))
    /\ UNCHANGED <<gateway, dispatched, views, sent, posts, github, nEvents>>

\* the "Bug Report" button
button_callback(view, user) == send_modal(view, "bug", user)

\* the "Suggestion" button
button_callback2(view, user) == send_modal(view, "suggestion", user)

(* --------------------------- the GitHub API ---------------------------- *)
\* status codes the hosting service answers a POST with
SuccessStatuses == {201}
ErrorStatuses == {422}

\* the web URL of the n-th issue of the repository
IssueUrl(n) == "https://github.com/o/r/issues/" \o str(n)

\* a requests.Response: its status code and the html_url member of its JSON
\* body (None when the body has no such member)
Response(status_code, html_url) == [status_code |-> status_code, html_url |-> html_url]

\* What requests.post can come back with, given the issues the service holds:
\* a 2xx response describing the issue it has just created, an error response
\* whose JSON body describes the error, or (None) a RequestException raised
\* before any response object exists (connection refused, DNS failure, timeout).
PostOutcomes(issues) ==
    {Some(Response(c, Some(IssueUrl(Len(issues) + 1)))) : c \in SuccessStatuses}
        \cup {Some(Response(c, None)) : c \in ErrorStatuses}
        \cup {None}

\* the service stores the issue exactly when it answers 2xx
Stored(issues, payload, outcome) ==
    IF outcome # None /\ outcome[1].status_code \in SuccessStatuses
    THEN Append(issues, payload)
    ELSE issues

(* ------------------------- create_github_issue ------------------------- *)
Payload(title, body, label) == [title |-> title, body |-> body, labels |-> <<label>>]

\* Mutant of raise_for_status: every status but 200 taken for an error.
raise_unless_200(response) == response.status_code # 200

\* response.raise_for_status(): raises HTTPError for a 4xx or 5xx status
raise_for_status(response) ==
    400 <= response.status_code /\ response.status_code < 600

\* The value create_github_issue returns, or the exception that leaves it, for
\* an outcome of requests.post.  In the except block `response` is read; when
\* requests.post itself raised, that local was never bound and Python raises
\* UnboundLocalError, which the except clause does not catch.
create_github_issue(outcome) ==
    IF outcome = None
    THEN [raised |-> Some("UnboundLocalError"), value |-> None]
    ELSE IF raise_for_status(outcome[1])
    THEN [raised |-> None, value |-> None]
    ELSE [raised |-> None, value |-> outcome[1].html_url]

\* Mutant of IssuePost: the request is sent a second time.
IssuePostTwice(modal, payload, number) ==
    <<[modal |-> modal, payload |-> payload, number |-> number],
      [modal |-> modal, payload |-> payload, number |-> 0]>>

\* What requests.post puts on the wire for one call: one POST, recorded with
\* the form it is for and the number of the issue it created (0: none).
IssuePost(modal, payload, number) ==
    <<[modal |-> modal, payload |-> payload, number |-> number]>>

(* -------------------------- ReportModal.callback ----------------------- *)
\* Three characters of the bot's texts cannot be written in a TLA+ string
\* (SANY accepts neither non-ASCII characters nor the backquote); each is
\* written as an ASCII stand-in that occurs nowhere else.
CheckMark == "(v)"
CrossMark == "(x)"
CodeFence == "'''"

\* an f-string placeholder holding a value that is None or a string
fstr(v) == IF v = None THEN "None" ELSE v[1]

\* Mutant of github_title: the kind not capitalized.
github_title_plain(issue_type, title) == issue_type \o ": " \o title

github_title(issue_type, title) == capitalize(issue_type) \o ": " \o title

github_body(issue_type, user, title, description) ==
    "**" \o capitalize(issue_type) \o " Report from Discord**\n\n"
        \o "**Reported by:** " \o user.name \o " (ID: " \o str(user.id) \o ")\n\n"
        \o "**Title:** " \o title \o "\n"
        \o "**Description:**\n" \o description

\* Mutant of interaction_user: the reporter kept in one place shared by all
\* forms, set by the first form opened.
first_user(s) == modals[1].user

\* interaction.user of the modal's submission: the user the form was shown to
interaction_user(s) == modals[s].user

SuccessEmbed(issue_type, user, issue_url, title, description) ==
    Embed(capitalize(issue_type) \o " Report Created",
          CheckMark \o " Thanks, " \o mention(user) \o "! Your " \o issue_type
              \o " report has been successfully created.",
          IF issue_type = "suggestion" THEN "green" ELSE "red",
          <<EmbedField("Issue URL", "[View on GitHub](" \o fstr(issue_url) \o ")"),
            EmbedField("Title", title),
            EmbedField("Description", CodeFence \o description \o CodeFence)>>)

FailureText(user) ==
    CrossMark \o " Sorry, " \o mention(user) \o ". There was an error creating the GitHub issue."

\* Mutant of Outcome: after a failure the form is put back for resubmission.
OutcomeReopen(issue_url) == IF Truthy(issue_url) THEN "succeeded" ELSE "form"

\* the position the callback ends in after its follow-up message
Outcome(issue_url) == IF Truthy(issue_url) THEN "succeeded" ELSE "failed"

\* What the user may submit in the form: the first title with the pre-filled
\* description left as it is (typed when nothing was pre-filled), or the second
\* title with a typed description; each field within its max_length.
Submittable(s) ==
    {td \in {<<TypedTitles[1], IF modals[s].prefill = None THEN TypedDescription
                                ELSE modals[s].prefill[1]>>,
              <<TypedTitles[2], TypedDescription>>} :
        /\ 1 <= Len(td[1]) /\ Len(td[1]) <= TitleMaxLength
        /\ 1 <= Len(td[2]) /\ Len(td[2]) <= DescriptionMaxLength}

\* The user submits the form: the callback reads the two fields and awaits
\* interaction.response.send_message("Submitting to GitHub...", ephemeral=True).
callback_ack(s, title, description) ==
    /\ s \in DOMAIN modals
    /\ modals[s].pc = "form"
    /\ <<title, description>> \in Submittable(s)
    /\ modals' = [modals EXCEPT ![s].pc = "acked",
                                ![s].title = Some(title),
                                ![s].description = Some(description),
                                ![s].log = Append(@, "ack")]
    /\ sent' = sent \cup {Message("ack", s, Some(interaction_user(s)), TRUE,
                                 "Submitting to GitHub...", None, 0)}
    /\ UNCHANGED <<gateway, dispatched, views, posts, github, nEvents>>

\* The callback resumes: it calls create_github_issue, which blocks in
\* requests.post, and then either is left by the exception or sends the
\* follow-up (the success embed or the failure notice, without the ephemeral
\* flag) and ends.
callback_post(s, outcome) ==
    /\ s \in DOMAIN modals
    /\ modals[s].pc = "acked"
    /\ outcome \in PostOutcomes(github)
    /\ LET m == modals[s]
           user == interaction_user(s)
           payload == Payload(github_title(m.issue_type, m.title[1]),
                              github_body(m.issue_type, user,
                                          m.title[1], m.description[1]),
                              m.issue_type)
           result == create_github_issue(outcome)
           issue_url == result.value
           message ==
               IF Truthy(issue_url)
               THEN Message("success", s, Some(user), FALSE, "",
                            Some(SuccessEmbed(m.issue_type, user, issue_url,
                                              m.title[1], m.description[1])), 0)
               ELSE Message("failure", s, Some(user), FALSE, FailureText(user), None, 0)
       IN  /\ posts' = posts \o IssuePost(s, payload,
                                         IF Len(Stored(github, payload, outcome)) > Len(github)
                                         THEN Len(github) + 1 ELSE 0)
           /\ github' = Stored(github, payload, outcome)
           /\ IF result.raised # None
              THEN /\ modals' = [modals EXCEPT ![s].pc = "raised",
                                               ![s].response = outcome,
                                               ![s].raised = result.raised,
                                               ![s].log = Append(@, "post")]
                   /\ UNCHANGED <<sent, gateway>>
              ELSE /\ modals' = [modals EXCEPT ![s].pc = Outcome(issue_url),
                                               ![s].response = outcome,
                                               ![s].issue_url = issue_url,
                                               ![s].log = @ \o <<"post", "result">>]
                   /\ sent' = sent \cup {message}
                   /\ gateway' = gateway \o Delivered(message)
    /\ UNCHANGED <<dispatched, views, nEvents>>

(* ---------------------------- specification ---------------------------- *)
Next ==
    \/ \E u \in Users, c \in UserContents : UserMessage(u, c)
    \/ OwnMessage
    \/ \E u \in Users : issue(u)
    \/ \E v \in DOMAIN views, u \in Users : button_callback(v, u)
    \/ \E v \in DOMAIN views, u \in Users : button_callback2(v, u)
    \/ \E s \in DOMAIN modals : \E td \in Submittable(s) : callback_ack(s, td[1], td[2])
    \/ \E s \in DOMAIN modals, o \in PostOutcomes(github) : callback_post(s, o)

Spec == Init /\ [][Next]_vars

(* ------------------------------ claims --------------------------------- *)
\* the messages the bot has sent in answer to form s
Answers(s) == {m \in sent : m.modal = s}

\* the POSTs issued for form s
PostsOf(s) == {i \in DOMAIN posts : posts[i].modal = s}

\* a status code of the 2xx class
Is2xx(status_code) == 200 <= status_code /\ status_code <= 299

\* form s has made its POST and the service answered it with a response
Answered(s) == "post" \in {modals[s].log[i] : i \in DOMAIN modals[s].log}
                   /\ modals[s].response # None

\* C1: whatever requests.post comes back with (a 2xx response, another
\* response, or no response at all), create_github_issue returns the issue URL
\* or None to the callback: no exception leaves it.
C1_NoExceptionEscapes ==
    \A s \in DOMAIN modals :
        /\ modals[s].raised = None
        /\ modals[s].pc # "raised"

\* C2: a submitted form whose callback has ended has had its result message
\* sent to the submitting user, and when the POST failed in transport (no
\* response) that message is the failure notice.
C2_ResultMessageSent ==
    \A s \in DOMAIN modals :
        modals[s].pc \in Ended =>
            /\ \E m \in Answers(s) :
                   m.kind \in {"success", "failure"} /\ m.to = Some(modals[s].user)
            /\ modals[s].response = None =>
                   \E m \in Answers(s) : m.kind = "failure"

\* C3: every message sent in answer to a form submission (acknowledgement,
\* success embed, failure notice) is ephemeral: only the originator sees it.
C3_AllAnswersEphemeral ==
    \A m \in sent : m.modal # 0 => m.ephemeral

\* C4 as stated: once a MainView prompt has led to a Succeeded or Failed
\* submission, no further form is opened from that prompt.
C4_PromptDiscarded ==
    [][\A v \in DOMAIN views :
           (\E s \in DOMAIN modals :
                modals[s].view = v /\ modals[s].pc \in {"succeeded", "failed"})
           => {s \in DOMAIN modals' : modals'[s].view = v}
                  = {s \in DOMAIN modals : modals[s].view = v}]_vars

\* the stage of the interaction a form is in
Rank(pc) ==
    CASE pc = "form" -> 1     \* AwaitingFormSubmission
      [] pc = "acked" -> 2    \* Submitting
      [] OTHER -> 3           \* Succeeded, Failed, or left by an exception

\* C4 as amended: a form only moves forward through AwaitingFormSubmission,
\* Submitting and its end, a form whose callback has ended is never touched
\* again, and views are never removed.
C4_NoReentry ==
    [][/\ \A s \in DOMAIN modals :
              /\ s \in DOMAIN modals'
              /\ Rank(modals'[s].pc) >= Rank(modals[s].pc)
              /\ modals[s].pc \in Ended => modals'[s] = modals[s]
       /\ \A v \in DOMAIN views : v \in DOMAIN views' /\ views'[v] = views[v]]_vars

\* C4 witness: a form opened from a prompt that had already led to a finished
\* submission has itself been submitted and has ended.
C4_PromptReused ==
    \E s \in DOMAIN modals :
        modals[s].reuses /\ modals[s].pc \in {"succeeded", "failed"}

\* the texts of a message in which a user or an issue can be referred to
Texts(m) ==
    IF m.embed = None THEN {m.content}
    ELSE {m.content, m.embed[1].title, m.embed[1].description}
             \cup {m.embed[1].fields[i].value : i \in DOMAIN m.embed[1].fields}

\* C5: under every interleaving, the messages answering a form go to the user
\* who submitted it, mention no other user, carry that form's title and
\* description, and link the issue that form's POST created and no other; and
\* each issue body carries the name and id of the user who submitted the form.
C5_NoCrossTalk ==
    /\ \A s \in DOMAIN modals : \A m \in Answers(s) :
           /\ m.to = Some(modals[s].user)
           /\ \A u \in Users \ {modals[s].user} :
                  \A t \in Texts(m) : ~Contains(t, mention(u))
           /\ m.kind \in {"success", "failure"} =>
                  \E t \in Texts(m) : Contains(t, mention(modals[s].user))
           /\ m.kind = "success" =>
                  /\ m.embed[1].fields[2].value = modals[s].title[1]
                  /\ Contains(m.embed[1].fields[3].value, modals[s].description[1])
                  /\ \A n \in DOMAIN github :
                         (\E t \in Texts(m) : Contains(t, "(" \o IssueUrl(n) \o ")"))
                             <=> (\E i \in PostsOf(s) : posts[i].number = n)
    /\ \A i \in DOMAIN posts :
           LET m == modals[posts[i].modal]
           IN  /\ Contains(posts[i].payload.body,
                           "**Reported by:** " \o m.user.name
                               \o " (ID: " \o str(m.user.id) \o ")")
               /\ Contains(posts[i].payload.body, "**Title:** " \o m.title[1] \o "\n")
               /\ Contains(posts[i].payload.body, "**Description:**\n" \o m.description[1])
               /\ posts[i].number # 0 => github[posts[i].number] = posts[i].payload

\* C5 witness: two users opened forms from the same prompt, the later form's
\* POST overtook the earlier form's, and both got their success embed.
C5_Interleaved ==
    \E i, j \in DOMAIN posts :
        /\ i < j /\ posts[i].modal > posts[j].modal
        /\ modals[posts[i].modal].view = modals[posts[j].modal].view
        /\ modals[posts[i].modal].user # modals[posts[j].modal].user
        /\ modals[posts[i].modal].pc = "succeeded"
        /\ modals[posts[j].modal].pc = "succeeded"

\* the message has one of the trigger keywords in its lower-cased content
HasKeyword(message) ==
    \E k \in {"bug", "issue", "error", "problem",
              "suggestion", "idea", "feature", "improve"} :
        Contains(lower(message.content), k)

\* C6: no message authored by the bot gets the keyword prompt: on_message has
\* replied to none of them, and every MainView created from a message comes
\* from a user's message.
C6_NoSelfTrigger ==
    /\ \A d \in dispatched : d.message.author = BotUser => ~d.replied
    /\ \A v \in DOMAIN views :
           views[v].message_content # None =>
               \E d \in dispatched :
                   /\ d.replied /\ d.message.author \in Users
                   /\ d.message.content = views[v].message_content[1]

\* C6 witness: on_message has handled a message of the bot's own whose text
\* has a trigger keyword, and did not reply.
C6_OwnKeywordIgnored ==
    \E d \in dispatched :
        d.message.author = BotUser /\ HasKeyword(d.message) /\ ~d.replied

\* the capitalized kinds, spelled out
Capitalized(kind) == IF kind = "bug" THEN "Bug" ELSE "Suggestion"

\* C7: the payload of every POST has labels = [kind] and the title
\* "<Capitalized kind>: <the user's title>", for the kinds bug and suggestion,
\* titles of at most 50 and descriptions of at most 1000 characters.
C7_PayloadShape ==
    \A i \in DOMAIN posts :
        LET m == modals[posts[i].modal]
        IN  /\ m.issue_type \in {"bug", "suggestion"}
            /\ Len(m.title[1]) <= TitleMaxLength
            /\ Len(m.description[1]) <= DescriptionMaxLength
            /\ posts[i].payload.labels = <<m.issue_type>>
            /\ posts[i].payload.title = Capitalized(m.issue_type) \o ": " \o m.title[1]

\* C7 witness: a bug and a suggestion have both been POSTed, one of them with
\* a title that has an upper-case letter and a space.
C7_BothKindsPosted ==
    /\ \E i \in DOMAIN posts : posts[i].payload.labels = <<"bug">>
    /\ \E i \in DOMAIN posts :
           /\ posts[i].payload.labels = <<"suggestion">>
           /\ modals[posts[i].modal].title = Some("Dark mode")

\* C8: when the service answers the POST with a 2xx status, create_github_issue
\* returns the created issue's URL, and the user is sent the success embed
\* linking exactly that URL and never the failure notice.
C8_SuccessReported ==
    \A s \in DOMAIN modals :
        (Answered(s) /\ Is2xx(modals[s].response[1].status_code)) =>
            /\ modals[s].raised = None
            /\ modals[s].issue_url = modals[s].response[1].html_url
            /\ modals[s].issue_url # None
            /\ modals[s].pc = "succeeded"
            /\ \E m \in Answers(s) :
                   /\ m.kind = "success"
                   /\ m.embed[1].fields[1].value
                          = "[View on GitHub](" \o modals[s].response[1].html_url[1] \o ")"
            /\ \A m \in Answers(s) : m.kind # "failure"

\* C8 witness: a POST was answered 201 and its form has ended Succeeded.
C8_Created ==
    \E s \in DOMAIN modals :
        /\ Answered(s) /\ modals[s].response[1].status_code = 201
        /\ modals[s].pc = "succeeded"

\* C9: when the service answers the POST with a non-2xx status,
\* create_github_issue returns None, and the user is sent the generic failure
\* notice, which has no issue URL in it, and never the success embed.
C9_FailureReported ==
    \A s \in DOMAIN modals :
        (Answered(s) /\ ~Is2xx(modals[s].response[1].status_code)) =>
            /\ modals[s].raised = None
            /\ modals[s].issue_url = None
            /\ modals[s].pc = "failed"
            /\ \E m \in Answers(s) :
                   /\ m.kind = "failure"
                   /\ m.embed = None
                   /\ m.content = CrossMark \o " Sorry, <@" \o str(modals[s].user.id)
                          \o ">. There was an error creating the GitHub issue."
                   /\ ~Contains(m.content, "http")
            /\ \A m \in Answers(s) : m.kind # "success"

\* C9 witness: a POST was answered 422 and its form has ended Failed.
C9_Rejected ==
    \E s \in DOMAIN modals :
        /\ Answered(s) /\ modals[s].response[1].status_code = 422
        /\ modals[s].pc = "failed"

\* C10: a form's callback sends the acknowledgement, then issues one POST,
\* then sends the result message, in that order; it has issued exactly one
\* POST once it has ended, whatever the outcome, and never more than one.
C10_OnePost ==
    \A s \in DOMAIN modals :
        /\ \E n \in 0..3 : modals[s].log = SubSeq(<<"ack", "post", "result">>, 1, n)
        /\ Cardinality(PostsOf(s))
               = Cardinality({i \in DOMAIN modals[s].log : modals[s].log[i] = "post"})
        /\ Cardinality(PostsOf(s)) <= 1
        /\ modals[s].pc \in Ended => Cardinality(PostsOf(s)) = 1
        /\ modals[s].pc \in {"succeeded", "failed"} =>
               modals[s].log = <<"ack", "post", "result">>

\* C10 witness: a form has ended Failed after a single POST that was not
\* repeated.
C10_FailedOnce ==
    \E s \in DOMAIN modals :
        modals[s].pc = "failed" /\ Cardinality(PostsOf(s)) = 1

====
